---- MODULE Spec2Model ----
(***************************************************************************)
(* Mashup web service: src/app.py (Flask handlers index and download, the  *)
(* download cache DOWNLOADS with its TTL sweep), src/tasks.py (the queued  *)
(* job create_mashup_and_email) and src/worker.py (the process that runs   *)
(* it).                                                                    *)
(*                                                                         *)
(* Text is a sequence of character codes (ASCII), so that sorting paths,   *)
(* sanitising names and building file names are computed as Python does.   *)
(* Audio is a sequence of clips [src, len]: which file the samples come    *)
(* from and how many milliseconds of it, so that order and duration of a   *)
(* merged track can be read off.                                           *)
(*                                                                         *)
(* The environment: the clock advances (Tick), a cache file can disappear  *)
(* from /tmp behind the program's back (LoseFile), and the collaborators   *)
(* fail: yt-dlp raises on the first entry it cannot fetch (ignoreerrors is *)
(* not set), pydub raises on a file it cannot decode, SendGrid raises.     *)
(***************************************************************************)
EXTENDS Integers, Sequences, FiniteSets, TLC

VARIABLES
    now,        \* time.time(), in seconds
    DOWNLOADS,  \* app.py:31, the dict as its insertion-ordered slots
    cachefs,    \* the files of DOWNLOAD_CACHE_DIR: token -> bytes written
    issued,     \* every token uuid.uuid4() has returned, in order
    th,         \* per thread of control: program counter and locals
    lastPut     \* history: the put in progress or last made, as long as
                \* nothing but its own job and pulls of its token followed

vars == <<now, DOWNLOADS, cachefs, issued, th, lastPut>>

-----------------------------------------------------------------------------
(* Bounds of the model *)

\* uuid4() is called at most this many times (one call per successful job)
MaxTokens == 2

-----------------------------------------------------------------------------
(* Text *)

\* "_mashup.mp3", "_mashup.zip", ".mp3", "trim_", "mashup", "mashup-output"
S_mashup_mp3 == <<95, 109, 97, 115, 104, 117, 112, 46, 109, 112, 51>>
S_mashup_zip == <<95, 109, 97, 115, 104, 117, 112, 46, 122, 105, 112>>
S_mp3 == <<46, 109, 112, 51>>
S_trim == <<116, 114, 105, 109, 95>>
S_mashup == <<109, 97, 115, 104, 117, 112>>
S_output == <<109, 97, 115, 104, 117, 112, 45, 111, 117, 116, 112, 117, 116>>

\* str < str in Python: lexicographic on the code points
RECURSIVE StrLess(_, _)
StrLess(a, b) ==
    IF b = <<>> THEN FALSE
    ELSE IF a = <<>> THEN TRUE
    ELSE IF Head(a) # Head(b) THEN Head(a) < Head(b)
    ELSE StrLess(Tail(a), Tail(b))

\* sorted(paths): the paths of one directory in ascending order of their names
RECURSIVE sorted(_)
sorted(S) ==
    IF S = {} THEN <<>>
    ELSE LET m == CHOOSE x \in S : \A y \in S \ {x} : StrLess(x, y)
         IN  <<m>> \o sorted(S \ {m})

\* the character class [a-zA-Z0-9._-] of sanitize_filename
Allowed(c) ==
    \/ c \in 97..122
    \/ c \in 65..90
    \/ c \in 48..57
    \/ c \in {46, 95, 45}

\* re.sub(r"[^a-zA-Z0-9._-]+", "_", name): each maximal run of other
\* characters becomes one "_"
RECURSIVE re_sub(_, _)
re_sub(name, inRun) ==
    IF name = <<>> THEN <<>>
    ELSE IF Allowed(Head(name)) THEN <<Head(name)>> \o re_sub(Tail(name), FALSE)
    ELSE IF inRun THEN re_sub(Tail(name), TRUE)
    ELSE <<95>> \o re_sub(Tail(name), TRUE)

\* str.strip(chars)
RECURSIVE lstrip(_, _)
lstrip(s, chars) ==
    IF s # <<>> /\ Head(s) \in chars THEN lstrip(Tail(s), chars) ELSE s

RECURSIVE rstrip(_, _)
rstrip(s, chars) ==
    IF s # <<>> /\ s[Len(s)] \in chars
    THEN rstrip(SubSeq(s, 1, Len(s) - 1), chars)
    ELSE s

strip(s, chars) == rstrip(lstrip(s, chars), chars)

\* str.strip(): whitespace
Whitespace == {32, 9, 10, 11, 12, 13, 28, 29, 30, 31}

IsDigit(c) == c \in 48..57

\* the blanks int() skips around a number
IntSpace == {32, 9, 10, 11, 12, 13}

\* what int() accepts after the sign: digits, single "_" between them
IntLiteral(s) ==
    /\ s # <<>>
    /\ IsDigit(s[1]) /\ IsDigit(s[Len(s)])
    /\ \A i \in DOMAIN s : IsDigit(s[i]) \/ s[i] = 95
    /\ \A i \in 1..(Len(s) - 1) : ~(s[i] = 95 /\ s[i + 1] = 95)

RECURSIVE DigitsValue(_, _)
DigitsValue(s, acc) ==
    IF s = <<>> THEN acc
    ELSE IF Head(s) = 95 THEN DigitsValue(Tail(s), acc)
    ELSE DigitsValue(Tail(s), acc * 10 + (Head(s) - 48))

\* app.py:47-51: int(x), or default when int raises (x is no number, or the
\* field is missing: the empty text here)
safe_int(x, default) ==
    LET s == strip(x, IntSpace)
        signed == s # <<>> /\ s[1] \in {43, 45}
        body == IF signed THEN Tail(s) ELSE s
    IN  IF ~IntLiteral(body) THEN default
        ELSE IF signed /\ s[1] = 45 THEN 0 - DigitsValue(body, 0)
        ELSE DigitsValue(body, 0)

\* a natural number as it is typed into the form
RECURSIVE str(_)
str(n) == IF n < 10 THEN <<48 + n>> ELSE str(n \div 10) \o <<48 + (n % 10)>>

sanitize_filename(name) ==
    LET r == strip(re_sub(name, FALSE), {95})
    IN  IF r = <<>> THEN S_mashup ELSE r

-----------------------------------------------------------------------------
(* Audio *)

\* The audio yt-dlp extracts from search result number rank: one clip of the
\* track's natural duration (no clip at all for a track without audio)
Track(rank, dur) ==
    IF dur = 0 THEN <<>> ELSE <<[src |-> rank, len |-> dur]>>

\* len(segment), in milliseconds
RECURSIVE Duration(_)
Duration(seg) ==
    IF seg = <<>> THEN 0 ELSE Head(seg).len + Duration(Tail(seg))

\* the leading ms milliseconds of a segment, all of it if it is shorter
RECURSIVE Leading(_, _)
Leading(seg, ms) ==
    IF seg = <<>> \/ ms <= 0 THEN <<>>
    ELSE IF Head(seg).len <= ms
         THEN <<Head(seg)>> \o Leading(Tail(seg), ms - Head(seg).len)
         ELSE <<[src |-> Head(seg).src, len |-> ms]>>

\* segment[:ms] (pydub): a negative ms counts from the end
SliceTo(seg, ms) ==
    IF ms >= 0 THEN Leading(seg, ms) ELSE Leading(seg, Duration(seg) + ms)

Max(a, b) == IF a >= b THEN a ELSE b
Min(a, b) == IF a <= b THEN a ELSE b

-----------------------------------------------------------------------------
(* The pipeline's functions.  A directory is a function from file name to   *)
(* file; an audio file is [audio, decodable]; a search result is            *)
(* [id, title, dur, fetch, decodable], its rank its position in the list.   *)

NoDir == <<>>

Write(dir, name, file) ==
    [x \in DOMAIN dir \cup {name} |-> IF x = name THEN file ELSE dir[x]]

\* outtmpl "%(id)s.%(ext)s" after FFmpegExtractAudio (app.py:64)
IdName(r) == r.id \o S_mp3

\* outtmpl "%(title).80s.%(ext)s" after FFmpegExtractAudio (tasks.py:21)
TitleName(r) == SubSeq(r.title, 1, Min(80, Len(r.title))) \o S_mp3

\* ydl.download([search]) from result number rank on: every result is fetched
\* in rank order and written under the output template's name; the first one
\* that cannot be fetched raises DownloadError and ends the call
RECURSIVE ydl_download(_, _, _, _, _)
ydl_download(results, rank, limit, dir, byTitle) ==
    IF rank > Len(results) \/ rank > limit
    THEN [raised |-> FALSE, dir |-> dir]
    ELSE IF results[rank].fetch # "ok"
    THEN [raised |-> TRUE, dir |-> dir]
    ELSE ydl_download(results, rank + 1, limit,
                      Write(dir,
                            IF byTitle THEN TitleName(results[rank])
                                       ELSE IdName(results[rank]),
                            [audio |-> Track(rank, results[rank].dur),
                             decodable |-> results[rank].decodable]),
                      byTitle)

\* app.py:84-92
download_n_audios_by_search(results, n, out_dir) ==
    LET r == ydl_download(results, 1, n, out_dir, FALSE)
    IN  [raised |-> r.raised, dir |-> r.dir,
         mp3s |-> IF r.raised THEN <<>> ELSE sorted(DOMAIN r.dir)]

\* tasks.py:15-46
_download_n_audios(results, n, download_dir) ==
    LET before == DOMAIN download_dir
        r == ydl_download(results, 1, n, download_dir, TRUE)
    IN  [raised |-> r.raised, dir |-> r.dir,
         mp3s |-> IF r.raised THEN <<>> ELSE sorted((DOMAIN r.dir) \ before)]

\* app.py:95-103: merged starts silent and empty; every file contributes its
\* leading clip_ms; a file pydub cannot decode raises
RECURSIVE build_loop(_, _, _, _)
build_loop(mp3_files, clip_ms, dir, merged) ==
    IF mp3_files = <<>> THEN [raised |-> FALSE, merged |-> merged]
    ELSE IF ~dir[Head(mp3_files)].decodable
    THEN [raised |-> TRUE, merged |-> merged]
    ELSE build_loop(Tail(mp3_files), clip_ms, dir,
                    merged \o SliceTo(dir[Head(mp3_files)].audio, clip_ms))

\* build_mashup with the clip length left in seconds
build_mashup_seconds(mp3_files, seconds_each, dir) ==
    build_loop(mp3_files, Max(1, seconds_each), dir, <<>>)

build_mashup(mp3_files, seconds_each, dir) ==
    build_loop(mp3_files, Max(1, seconds_each) * 1000, dir, <<>>)

\* the position of the last "." of a name, 0 when it has none
LastDot(name) ==
    IF \E i \in DOMAIN name : name[i] = 46
    THEN CHOOSE i \in DOMAIN name :
            name[i] = 46 /\ \A j \in DOMAIN name : name[j] = 46 => j <= i
    ELSE 0

\* Path.stem: the name up to its last ".", the whole name when that "." is
\* its first or its last character
Stem(name) ==
    IF 1 < LastDot(name) /\ LastDot(name) < Len(name)
    THEN SubSeq(name, 1, LastDot(name) - 1)
    ELSE name

\* tasks.py:49-57: the trimmed file's name and content
_trim_first_y_seconds(audio_path, y_seconds, dir) ==
    [raised |-> ~dir[audio_path].decodable,
     name |-> S_trim \o Stem(audio_path) \o S_mp3,
     file |-> [audio |-> SliceTo(dir[audio_path].audio, y_seconds * 1000),
               decodable |-> TRUE]]

\* tasks.py:125-127: trim every downloaded file into the trims directory
RECURSIVE trim_loop(_, _, _, _, _)
trim_loop(audio_files, y, dir, trims, trimmed_files) ==
    IF audio_files = <<>>
    THEN [raised |-> FALSE, trims |-> trims, trimmed_files |-> trimmed_files]
    ELSE LET r == _trim_first_y_seconds(Head(audio_files), y, dir)
         IN  IF r.raised
             THEN [raised |-> TRUE, trims |-> trims,
                   trimmed_files |-> trimmed_files]
             ELSE trim_loop(Tail(audio_files), y, dir,
                            Write(trims, r.name, r.file),
                            Append(trimmed_files, r.name))

\* tasks.py:60-64
RECURSIVE _merge_audios(_, _)
_merge_audios(audio_paths, dir) ==
    IF audio_paths = <<>> THEN <<>>
    ELSE dir[Head(audio_paths)].audio \o _merge_audios(Tail(audio_paths), dir)

\* app.py:106-108, tasks.py:67-69: an archive of the one file, under its name
make_zip(file_name, audio) == <<[arcname |-> file_name, data |-> audio]>>

-----------------------------------------------------------------------------
(* State *)

\* app.py:259 serves requests on threads; worker.py:8-10 is the rq process
Web == {"w1", "w2"}
Threads == Web \cup {"rq"}

\* app.py:30
DOWNLOAD_TTL_SECONDS == 20 * 60

\* the instants the clock is looked at: the TTL to the second and one past it
Instants == {0, DOWNLOAD_TTL_SECONDS, DOWNLOAD_TTL_SECONDS + 1}

\* a slot of the dict whose entry was popped; DOWNLOADS.get's None
Dummy == [token |-> 0, path |-> 0, created |-> 0, filename |-> <<>>]

NoForm == [singer |-> <<>>, n |-> 0, y |-> 0, email |-> <<>>]

NoResp ==
    [status |-> 0, exc |-> "", error |-> "", success |-> FALSE, url |-> 0,
     data |-> <<>>, name |-> <<>>]

NoPut == [token |-> 0, data |-> <<>>, name |-> <<>>]

\* a thread between requests: the locals of the handlers, and the history of
\* its last request (resp, results, fetched, nput, push, aged, norcpt,
\* unlinkfail, and cnow, the clock reading of its last sweep)
Locals0 ==
    [pc |-> "idle", kind |-> "none", form |-> NoForm, token |-> 0,
     ret |-> "", cnow |-> 0, it |-> 0, used |-> 0, left |-> 0,
     expired |-> <<>>, path |-> 0, meta |-> Dummy,
     tmp |-> FALSE, dir |-> NoDir, trims |-> NoDir, mp3s |-> <<>>,
     merged |-> <<>>, zip |-> <<>>, tok |-> 0, created |-> 0,
     resp |-> NoResp,
     results |-> <<>>, fetched |-> 0, nput |-> 0, push |-> "none",
     aged |-> FALSE, norcpt |-> FALSE, unlinkfail |-> FALSE]

Init ==
    /\ now = 0
    /\ DOWNLOADS = <<>>
    /\ cachefs = <<>>
    /\ issued = <<>>
    /\ th = [t \in Threads |-> Locals0]
    /\ lastPut = NoPut

Upd(t, r) == th' = [th EXCEPT ![t] = r]

\* the handler has returned resp (or let exc escape): its locals are gone
Finished(r, resp) ==
    [Locals0 EXCEPT !.kind = r.kind, !.token = r.token, !.resp = resp,
                    !.results = r.results, !.fetched = r.fetched,
                    !.nput = r.nput, !.push = r.push, !.aged = r.aged,
                    !.norcpt = r.norcpt, !.unlinkfail = r.unlinkfail,
                    !.cnow = r.cnow,
                    !.tmp = r.tmp, !.dir = r.dir, !.trims = r.trims,
                    !.merged = r.merged, !.zip = r.zip]

Page(error, success, url) ==
    [NoResp EXCEPT !.status = 200, !.error = error, !.success = success,
                   !.url = url]

\* create_mashup_and_email returns None
Returned == [NoResp EXCEPT !.success = TRUE]

Uncaught(exc) == [NoResp EXCEPT !.status = 500, !.exc = exc]

\* Raise with the exception passing the finally clause by
Raise_past_finally(r, exc) == Finished(r, Uncaught(exc))

\* an exception leaves the handler; inside index's and the job's try block
\* (the temporary directory exists) the finally clause runs first
Raise(r, exc) ==
    IF r.tmp THEN [r EXCEPT !.pc = "finally", !.resp = Uncaught(exc)]
    ELSE Finished(r, Uncaught(exc))

\* a return inside the try block: the finally clause runs, then resp is sent
Return(r, resp) == [r EXCEPT !.pc = "finally", !.resp = resp]

Live(slot) == slot.token # 0

\* len(DOWNLOADS)
LiveCount == Cardinality({i \in DOMAIN DOWNLOADS : Live(DOWNLOADS[i])})

HasKey(token) ==
    \E i \in DOMAIN DOWNLOADS : Live(DOWNLOADS[i]) /\ DOWNLOADS[i].token = token

\* Get with the key ignored: the first entry of the dict
Get_first(token) ==
    IF HasKey(token)
    THEN DOWNLOADS[CHOOSE i \in DOMAIN DOWNLOADS :
            /\ Live(DOWNLOADS[i])
            /\ \A j \in DOMAIN DOWNLOADS : Live(DOWNLOADS[j]) => i <= j]
    ELSE Dummy

\* DOWNLOADS.get(token)
Get(token) ==
    IF HasKey(token)
    THEN DOWNLOADS[CHOOSE i \in DOMAIN DOWNLOADS : DOWNLOADS[i].token = token]
    ELSE Dummy

\* DOWNLOADS.pop(token, None)
Pop(token) ==
    [i \in DOMAIN DOWNLOADS |->
        IF DOWNLOADS[i].token = token THEN Dummy ELSE DOWNLOADS[i]]

\* p.exists()
Exists(path) == path \in DOMAIN cachefs

\* p.unlink()
Unlink(path) == [x \in (DOMAIN cachefs) \ {path} |-> cachefs[x]]

\* uuid4 as a token that is merely not a key of the dict right now
uuid4_unused ==
    CHOOSE k \in 1..(Len(issued) + 1) :
        ~HasKey(k) /\ \A j \in 1..(k - 1) : HasKey(j)

\* uuid.uuid4().hex: a token that was never returned before
uuid4 == Len(issued) + 1

-----------------------------------------------------------------------------
(* The environment *)

Tick ==
    /\ \E later \in Instants : later > now /\ now' = later
    /\ lastPut' = NoPut
    /\ UNCHANGED <<DOWNLOADS, cachefs, issued, th>>

\* a file of /tmp/mashup_cache is removed behind the program's back
LoseFile ==
    /\ \E path \in DOMAIN cachefs : cachefs' = Unlink(path)
    /\ lastPut' = NoPut
    /\ UNCHANGED <<now, DOWNLOADS, issued, th>>

-----------------------------------------------------------------------------
(* cleanup_downloads, app.py:34-44 *)

\* IsExpired with the operands of the subtraction exchanged
IsExpired_swapped(meta, at) == meta.created - at > DOWNLOAD_TTL_SECONDS

\* IsExpired with the TTL itself counted as expired
IsExpired_at_ttl(meta, at) == at - meta.created >= DOWNLOAD_TTL_SECONDS

\* app.py:36, the test of the comprehension
IsExpired(meta, at) == at - meta.created > DOWNLOAD_TTL_SECONDS

\* app.py:35: now = time.time()
cl_now(t) ==
    /\ th[t].pc = "cl_now"
    /\ Upd(t, [th[t] EXCEPT !.pc = "cl_iter", !.cnow = now])
    /\ UNCHANGED <<now, DOWNLOADS, cachefs, issued, lastPut>>

\* app.py:36: the iterator over DOWNLOADS.items() is made; it remembers the
\* size of the dict.  aged: the request's own token is among the entries it
\* will find older than the TTL
cl_iter(t) ==
    /\ th[t].pc = "cl_iter"
    /\ Upd(t, [th[t] EXCEPT
            !.pc = "cl_scan", !.it = 0,
            !.used = LiveCount, !.left = LiveCount, !.expired = <<>>,
            !.aged = /\ th[t].kind = "download"
                     /\ \E i \in DOMAIN DOWNLOADS :
                           /\ DOWNLOADS[i].token = th[t].token
                           /\ th[t].cnow - DOWNLOADS[i].created > 20 * 60])
    /\ UNCHANGED <<now, DOWNLOADS, cachefs, issued, lastPut>>

\* app.py:36, one step of the dict iterator and the test of the item it yields.
\* CPython's iterator raises RuntimeError when the dict's size is not the one
\* it started with, or when it finds more items than it started with.
cl_scan(t) ==
    /\ th[t].pc = "cl_scan"
    /\ LET r == th[t]
           rest == {i \in DOMAIN DOWNLOADS : i > r.it /\ Live(DOWNLOADS[i])}
       IN  IF LiveCount # r.used
           THEN Upd(t, Raise(r, "RuntimeError"))
           ELSE IF rest = {}
           THEN Upd(t, [r EXCEPT
                    !.pc = IF r.expired = <<>> THEN r.ret ELSE "cl_path"])
           ELSE IF r.left = 0
           THEN Upd(t, Raise(r, "RuntimeError"))
           ELSE LET i == CHOOSE j \in rest : \A k \in rest : j <= k
                IN  Upd(t, [r EXCEPT
                        !.it = i, !.left = r.left - 1,
                        !.expired = IF IsExpired(DOWNLOADS[i], r.cnow)
                                    THEN Append(r.expired, DOWNLOADS[i].token)
                                    ELSE r.expired])
    /\ UNCHANGED <<now, DOWNLOADS, cachefs, issued, lastPut>>

\* app.py:39: p = DOWNLOADS[t]["path"]; a KeyError goes to the bare except
cl_path(t) ==
    /\ th[t].pc = "cl_path"
    /\ LET r == th[t]
       IN  IF HasKey(Head(r.expired))
           THEN Upd(t, [r EXCEPT !.pc = "cl_exists",
                                 !.path = Get(Head(r.expired)).path])
           ELSE Upd(t, [r EXCEPT !.pc = "cl_pop"])
    /\ UNCHANGED <<now, DOWNLOADS, cachefs, issued, lastPut>>

\* app.py:40
cl_exists(t) ==
    /\ th[t].pc = "cl_exists"
    /\ Upd(t, [th[t] EXCEPT
            !.pc = IF Exists(th[t].path) THEN "cl_unlink" ELSE "cl_pop"])
    /\ UNCHANGED <<now, DOWNLOADS, cachefs, issued, lastPut>>

\* cl_unlink with the error of a failed deletion leaving cleanup_downloads
cl_unlink_raising(t) ==
    /\ th[t].pc = "cl_unlink"
    /\ IF Exists(th[t].path)
       THEN /\ cachefs' = Unlink(th[t].path)
            /\ Upd(t, [th[t] EXCEPT !.pc = "cl_pop"])
       ELSE /\ cachefs' = cachefs
            /\ Upd(t, Raise([th[t] EXCEPT !.unlinkfail = TRUE],
                            "FileNotFoundError"))
    /\ UNCHANGED <<now, DOWNLOADS, issued, lastPut>>

\* app.py:41-43: unlink; the file may be gone since the test of :40, and the
\* FileNotFoundError goes to the bare except
cl_unlink(t) ==
    /\ th[t].pc = "cl_unlink"
    /\ IF Exists(th[t].path)
       THEN /\ cachefs' = Unlink(th[t].path)
            /\ Upd(t, [th[t] EXCEPT !.pc = "cl_pop"])
       ELSE /\ cachefs' = cachefs
            /\ Upd(t, [th[t] EXCEPT !.pc = "cl_pop", !.unlinkfail = TRUE])
    /\ UNCHANGED <<now, DOWNLOADS, issued, lastPut>>

\* app.py:44, and the next round of the loop at :37
cl_pop(t) ==
    /\ th[t].pc = "cl_pop"
    /\ DOWNLOADS' = Pop(Head(th[t].expired))
    /\ Upd(t, [th[t] EXCEPT
            !.expired = Tail(th[t].expired), !.path = 0,
            !.pc = IF Tail(th[t].expired) = <<>> THEN th[t].ret
                   ELSE "cl_path"])
    /\ UNCHANGED <<now, cachefs, issued, lastPut>>

-----------------------------------------------------------------------------
(* download, app.py:239-255 *)

\* GET /download/<token> arrives; app.py:241 calls cleanup_downloads
StartDownload(t, token) ==
    /\ th[t].pc = "idle"
    /\ Upd(t, [Locals0 EXCEPT !.pc = "cl_now", !.ret = "dl_get",
                              !.kind = "download", !.token = token])
    /\ lastPut' = IF token = lastPut.token THEN lastPut ELSE NoPut
    /\ UNCHANGED <<now, DOWNLOADS, cachefs, issued>>

\* app.py:242-246
dl_get(t) ==
    /\ th[t].pc = "dl_get"
    /\ LET meta == Get(th[t].token)
       IN  IF ~Live(meta)
           THEN Upd(t, Finished(th[t],
                    [NoResp EXCEPT !.status = 404, !.error = "expired or invalid"]))
           ELSE Upd(t, [th[t] EXCEPT !.pc = "dl_exists", !.meta = meta])
    /\ UNCHANGED <<now, DOWNLOADS, cachefs, issued, lastPut>>

\* app.py:247-248
dl_exists(t) ==
    /\ th[t].pc = "dl_exists"
    /\ IF ~Exists(th[t].meta.path)
       THEN Upd(t, Finished(th[t],
                [NoResp EXCEPT !.status = 404, !.error = "file not found"]))
       ELSE Upd(t, [th[t] EXCEPT !.pc = "dl_send"])
    /\ UNCHANGED <<now, DOWNLOADS, cachefs, issued, lastPut>>

\* app.py:250-255: send_file opens the path
dl_send(t) ==
    /\ th[t].pc = "dl_send"
    /\ IF Exists(th[t].meta.path)
       THEN Upd(t, Finished(th[t],
                [NoResp EXCEPT !.status = 200,
                               !.data = cachefs[th[t].meta.path],
                               !.name = th[t].meta.filename]))
       ELSE Upd(t, Raise(th[t], "FileNotFoundError"))
    /\ UNCHANGED <<now, DOWNLOADS, cachefs, issued, lastPut>>

-----------------------------------------------------------------------------
(* cache_zip_for_download, app.py:146-155; :150 is cleanup_downloads *)

\* app.py:151
cz_uuid(t) ==
    /\ th[t].pc = "cz_uuid"
    /\ issued' = Append(issued, uuid4)
    /\ Upd(t, [th[t] EXCEPT !.pc = "cz_write", !.tok = uuid4])
    /\ UNCHANGED <<now, DOWNLOADS, cachefs, lastPut>>

\* the name index gives the archive, app.py:212 and :216
DisplayName(form) == sanitize_filename(form.singer) \o S_mashup_zip

\* cz_write with the copy left out
cz_write_nothing(t) ==
    /\ th[t].pc = "cz_write"
    /\ Upd(t, [th[t] EXCEPT !.pc = "cz_time"])
    /\ lastPut' = [token |-> th[t].tok, data |-> th[t].zip,
                   name |-> DisplayName(th[t].form)]
    /\ UNCHANGED <<now, DOWNLOADS, cachefs, issued>>

\* app.py:152-153: the copy of the archive, at DOWNLOAD_CACHE_DIR/<token>.zip
cz_write(t) ==
    /\ th[t].pc = "cz_write"
    /\ cachefs' = Write(cachefs, th[t].tok, th[t].zip)
    /\ Upd(t, [th[t] EXCEPT !.pc = "cz_time"])
    /\ lastPut' = [token |-> th[t].tok, data |-> th[t].zip,
                   name |-> DisplayName(th[t].form)]
    /\ UNCHANGED <<now, DOWNLOADS, issued>>

\* app.py:154, the dict display: time.time() is read before the store
cz_time(t) ==
    /\ th[t].pc = "cz_time"
    /\ Upd(t, [th[t] EXCEPT !.pc = "cz_pub", !.created = now])
    /\ UNCHANGED <<now, DOWNLOADS, cachefs, issued, lastPut>>

\* app.py:154-155, the store into DOWNLOADS, then :217
cz_pub(t) ==
    /\ th[t].pc = "cz_pub"
    /\ DOWNLOADS' = Append(DOWNLOADS,
            [token |-> th[t].tok, path |-> th[t].tok,
             created |-> th[t].created,
             filename |-> DisplayName(th[t].form)])
    /\ Upd(t, [th[t] EXCEPT !.pc = "ix_email", !.nput = th[t].nput + 1])
    /\ UNCHANGED <<now, cachefs, issued, lastPut>>

-----------------------------------------------------------------------------
(* index, app.py:158-236 *)

\* "u@e.co" and "x"
UserEmail == <<117, 64, 101, 46, 99, 111>>
NotAnAddress == <<120>>

\* validate_email accepts the address
ValidEmails == {UserEmail}

\* GET /: app.py:160 calls cleanup_downloads
StartIndexGet(t) ==
    /\ th[t].pc = "idle"
    /\ Upd(t, [Locals0 EXCEPT !.pc = "cl_now", !.ret = "ix_page",
                              !.kind = "index_get"])
    /\ lastPut' = NoPut
    /\ UNCHANGED <<now, DOWNLOADS, cachefs, issued>>

\* app.py:162-163
ix_page(t) ==
    /\ th[t].pc = "ix_page"
    /\ Upd(t, Finished(th[t], Page("", FALSE, 0)))
    /\ UNCHANGED <<now, DOWNLOADS, cachefs, issued, lastPut>>

\* jobs that have not drawn their token yet
Pending ==
    {u \in Threads : th[u].kind = "index_post" /\ th[u].pc # "idle"
                     /\ th[u].tok = 0}

\* POST /: app.py:160 calls cleanup_downloads; :165-168 strip the text fields
\* and convert the numbers
StartIndexPost(t, form) ==
    /\ th[t].pc = "idle"
    /\ Len(issued) + Cardinality(Pending) < MaxTokens
    /\ Upd(t, [Locals0 EXCEPT
            !.pc = "cl_now", !.ret = "ix_validate", !.kind = "index_post",
            !.form = [singer |-> strip(form.singer, Whitespace),
                      n |-> safe_int(form.n, 0),
                      y |-> safe_int(form.y, 0),
                      email |-> strip(form.email, Whitespace)],
            !.norcpt = strip(form.email, Whitespace) = <<>>])
    /\ lastPut' = NoPut
    /\ UNCHANGED <<now, DOWNLOADS, cachefs, issued>>

\* ValidationError without the upper limits of n and y
ValidationError_no_upper(form) ==
    IF form.singer = <<>> THEN "singer required"
    ELSE IF form.n <= 0 THEN "n out of range"
    ELSE IF form.y <= 0 THEN "y out of range"
    ELSE IF form.email = <<>> THEN "email required"
    ELSE IF form.email \notin ValidEmails THEN "email invalid"
    ELSE ""

\* app.py:170-182
ValidationError(form) ==
    IF form.singer = <<>> THEN "singer required"
    ELSE IF form.n <= 0 \/ form.n > 20 THEN "n out of range"
    ELSE IF form.y <= 0 \/ form.y > 60 THEN "y out of range"
    ELSE IF form.email = <<>> THEN "email required"
    ELSE IF form.email \notin ValidEmails THEN "email invalid"
    ELSE ""

\* app.py:170-188: reject, or make the temporary directory and enter the try
ix_validate(t) ==
    /\ th[t].pc = "ix_validate"
    /\ IF ValidationError(th[t].form) # ""
       THEN Upd(t, Finished(th[t], Page(ValidationError(th[t].form), FALSE, 0)))
       ELSE Upd(t, [th[t] EXCEPT !.pc = "ix_download", !.tmp = TRUE])
    /\ UNCHANGED <<now, DOWNLOADS, cachefs, issued, lastPut>>

\* ix_download without the test of app.py:203
ix_download_unchecked(t, results) ==
    /\ th[t].pc = "ix_download"
    /\ LET r == th[t]
           d == download_n_audios_by_search(results, r.form.n, r.dir)
           got == [r EXCEPT !.dir = d.dir, !.mp3s = d.mp3s,
                            !.results = results,
                            !.fetched = Cardinality(DOMAIN d.dir)]
       IN  IF d.raised
           THEN Upd(t, Return(got, Page("youtube blocked", FALSE, 0)))
           ELSE Upd(t, [got EXCEPT !.pc = "ix_build"])
    /\ UNCHANGED <<now, DOWNLOADS, cachefs, issued, lastPut>>

\* app.py:190-204; results is what the search service returns this time
ix_download(t, results) ==
    /\ th[t].pc = "ix_download"
    /\ LET r == th[t]
           d == download_n_audios_by_search(results, r.form.n, r.dir)
           got == [r EXCEPT !.dir = d.dir, !.mp3s = d.mp3s,
                            !.results = results,
                            !.fetched = Cardinality(DOMAIN d.dir)]
       IN  IF d.raised
           THEN Upd(t, Return(got, Page("youtube blocked", FALSE, 0)))
           ELSE IF d.mp3s = <<>>
           THEN Upd(t, Return(got, Page("no audios", FALSE, 0)))
           ELSE Upd(t, [got EXCEPT !.pc = "ix_build"])
    /\ UNCHANGED <<now, DOWNLOADS, cachefs, issued, lastPut>>

\* app.py:206-209
ix_build(t) ==
    /\ th[t].pc = "ix_build"
    /\ LET r == th[t]
           b == build_mashup(r.mp3s, r.form.y, r.dir)
       IN  IF b.raised
           THEN Upd(t, Raise(r, "CouldntDecodeError"))
           ELSE Upd(t, [r EXCEPT !.pc = "ix_zip", !.merged = b.merged])
    /\ UNCHANGED <<now, DOWNLOADS, cachefs, issued, lastPut>>

\* app.py:211-216: the archive, then the call of cache_zip_for_download
ix_zip(t) ==
    /\ th[t].pc = "ix_zip"
    /\ Upd(t, [th[t] EXCEPT
            !.pc = "cl_now", !.ret = "cz_uuid",
            !.zip = make_zip(sanitize_filename(th[t].form.singer)
                                \o S_mashup_mp3, th[t].merged)])
    /\ UNCHANGED <<now, DOWNLOADS, cachefs, issued, lastPut>>

\* app.py:219-233: the email is sent, or SendGrid raises and the page says so;
\* the download link is on the page either way
ix_email(t, sent) ==
    /\ th[t].pc = "ix_email"
    /\ IF sent
       THEN Upd(t, Return([th[t] EXCEPT !.push = "sent"],
                          Page("", TRUE, th[t].tok)))
       ELSE Upd(t, Return([th[t] EXCEPT !.push = "failed"],
                          Page("email failed", FALSE, th[t].tok)))
    /\ UNCHANGED <<now, DOWNLOADS, cachefs, issued, lastPut>>

\* finally with the cached archive kept inside the temporary directory
finally_with_cache(t) ==
    /\ th[t].pc = "finally"
    /\ Upd(t, Finished([th[t] EXCEPT !.tmp = FALSE, !.dir = NoDir,
                                     !.trims = NoDir, !.merged = <<>>,
                                     !.zip = <<>>],
                       th[t].resp))
    /\ cachefs' = Unlink(th[t].tok)
    /\ UNCHANGED <<now, DOWNLOADS, issued, lastPut>>

\* app.py:235-236 and tasks.py:144-145: shutil.rmtree of the temporary
\* directory, then the pending return or exception takes effect
finally(t) ==
    /\ th[t].pc = "finally"
    /\ Upd(t, Finished([th[t] EXCEPT !.tmp = FALSE, !.dir = NoDir,
                                     !.trims = NoDir, !.merged = <<>>,
                                     !.zip = <<>>],
                       th[t].resp))
    /\ UNCHANGED <<now, DOWNLOADS, cachefs, issued, lastPut>>

-----------------------------------------------------------------------------
(* create_mashup_and_email, tasks.py:103-145 *)

\* the worker takes a job off the queue; tasks.py:112-117
StartTask(t, form) ==
    /\ th[t].pc = "idle"
    /\ Upd(t, [Locals0 EXCEPT !.pc = "tk_download", !.kind = "task",
                              !.form = form, !.tmp = TRUE])
    /\ UNCHANGED <<now, DOWNLOADS, cachefs, issued, lastPut>>

\* tasks.py:119-122
tk_download(t, results) ==
    /\ th[t].pc = "tk_download"
    /\ LET r == th[t]
           d == _download_n_audios(results, r.form.n, r.dir)
           got == [r EXCEPT !.dir = d.dir, !.mp3s = d.mp3s,
                            !.results = results,
                            !.fetched = Cardinality(DOMAIN d.dir)]
       IN  IF d.raised
           THEN Upd(t, Raise(got, "DownloadError"))
           ELSE IF d.mp3s = <<>>
           THEN Upd(t, Raise(got, "RuntimeError"))
           ELSE Upd(t, [got EXCEPT !.pc = "tk_trim"])
    /\ UNCHANGED <<now, DOWNLOADS, cachefs, issued, lastPut>>

\* tasks.py:124-127
tk_trim(t) ==
    /\ th[t].pc = "tk_trim"
    /\ LET r == th[t]
           x == trim_loop(r.mp3s, r.form.y, r.dir, r.trims, <<>>)
       IN  IF x.raised
           THEN Upd(t, Raise([r EXCEPT !.trims = x.trims], "CouldntDecodeError"))
           ELSE Upd(t, [r EXCEPT !.pc = "tk_merge", !.trims = x.trims,
                                 !.mp3s = x.trimmed_files])
    /\ UNCHANGED <<now, DOWNLOADS, cachefs, issued, lastPut>>

\* tasks.py:129-131
tk_merge(t) ==
    /\ th[t].pc = "tk_merge"
    /\ Upd(t, [th[t] EXCEPT !.pc = "tk_zip",
                            !.merged = _merge_audios(th[t].mp3s, th[t].trims)])
    /\ UNCHANGED <<now, DOWNLOADS, cachefs, issued, lastPut>>

\* tasks.py:133-135
tk_zip(t) ==
    /\ th[t].pc = "tk_zip"
    /\ Upd(t, [th[t] EXCEPT !.pc = "tk_email",
                            !.zip = make_zip(S_output \o S_mp3, th[t].merged)])
    /\ UNCHANGED <<now, DOWNLOADS, cachefs, issued, lastPut>>

\* tasks.py:137-143: the email is sent, or SendGrid raises and the job raises
tk_email(t, sent) ==
    /\ th[t].pc = "tk_email"
    /\ IF sent
       THEN Upd(t, Return([th[t] EXCEPT !.push = "sent"], Returned))
       ELSE Upd(t, Raise([th[t] EXCEPT !.push = "failed"], "SendGridError"))
    /\ UNCHANGED <<now, DOWNLOADS, cachefs, issued, lastPut>>

-----------------------------------------------------------------------------
(* Inputs *)

\* a search result
Result(id, dur, fetch, decodable) ==
    [id |-> id, title |-> <<116>> \o id, dur |-> dur, fetch |-> fetch,
     decodable |-> decodable]

\* " a b ", "!!" and "   " as typed into the form
SingerAB == <<32, 97, 32, 98, 32>>
SingerBang == <<33, 33>>
SingerBlank == <<32, 32, 32>>

Form(singer, n, y, email) ==
    [singer |-> singer, n |-> n, y |-> y, email |-> email]

\* the fields of a submission as the browser sends them
Raw(form) == [form EXCEPT !.n = str(form.n), !.y = str(form.y)]

\* " 2", "x" and "  " as typed into the form
TwoPadded == <<32, 50>>
NoNumber == <<120>>
Blanks == <<32, 32>>

\* submissions that pass app.py:170-182
GoodForms ==
    {Raw(Form(SingerAB, 2, 1, UserEmail)),
     Form(SingerBang, <<49>>, TwoPadded, <<32>> \o UserEmail)}

\* submissions for every rejection of app.py:170-182
BadForms ==
    {Raw(Form(SingerBlank, 2, 1, UserEmail)),
     Raw(Form(SingerAB, 0, 1, UserEmail)),
     Raw(Form(SingerAB, 21, 1, UserEmail)),
     Form(SingerAB, NoNumber, <<49>>, UserEmail),
     Form(SingerAB, <<>>, <<49>>, UserEmail),
     Raw(Form(SingerAB, 2, 0, UserEmail)),
     Raw(Form(SingerAB, 2, 61, UserEmail)),
     Form(SingerAB, <<50>>, <<45, 49>>, UserEmail),
     Raw(Form(SingerAB, 2, 1, <<>>)),
     Raw(Form(SingerAB, 2, 1, Blanks)),
     Raw(Form(SingerAB, 2, 1, NotAnAddress))}

Forms == GoodForms \cup BadForms

\* what the search may return: nothing; one track; a track and then one that
\* cannot be fetched; none that can be fetched; a file pydub cannot decode;
\* two tracks whose ids sort against their ranks
SearchResults ==
    {<<>>,
     <<Result(<<98>>, 3000, "ok", TRUE)>>,
     <<Result(<<98>>, 3000, "ok", TRUE), Result(<<97>>, 500, "err", TRUE)>>,
     <<Result(<<98>>, 3000, "err", TRUE)>>,
     <<Result(<<98>>, 3000, "ok", FALSE)>>,
     <<Result(<<98>>, 3000, "ok", TRUE), Result(<<97>>, 500, "ok", TRUE)>>}

-----------------------------------------------------------------------------
(* The web service handling one request at a time *)

WebStep(t, forms, searches) ==
    \/ \E token \in 1..MaxTokens : StartDownload(t, token)
    \/ StartIndexGet(t)
    \/ \E form \in forms : StartIndexPost(t, form)
    \/ cl_now(t)
    \/ cl_iter(t)
    \/ cl_scan(t)
    \/ cl_path(t)
    \/ cl_exists(t)
    \/ cl_unlink(t)
    \/ cl_pop(t)
    \/ dl_get(t)
    \/ dl_exists(t)
    \/ dl_send(t)
    \/ ix_page(t)
    \/ ix_validate(t)
    \/ \E results \in searches : ix_download(t, results)
    \/ ix_build(t)
    \/ ix_zip(t)
    \/ cz_uuid(t)
    \/ cz_write(t)
    \/ cz_time(t)
    \/ cz_pub(t)
    \/ \E sent \in BOOLEAN : ix_email(t, sent)
    \/ finally(t)

Next ==
    \/ Tick
    \/ LoseFile
    \/ WebStep("w1", Forms, SearchResults)

Spec == Init /\ [][Next]_vars

-----------------------------------------------------------------------------
(* The web service handling one request at a time, with nobody else        *)
(* touching the cache directory                                             *)

SerialNext ==
    \/ Tick
    \/ WebStep("w1", Forms, SearchResults)

SerialSpec == Init /\ [][SerialNext]_vars

-----------------------------------------------------------------------------
(* One job, as the web handler or as the queued task, on every search       *)
(* outcome of up to MaxResults results                                      *)

\* the search returns at most this many results
MaxResults == 3

\* ids whose alphabetical order is not the rank order: b, a, d, c, ...
IdOf(rank) == IF rank % 2 = 1 THEN <<97 + rank>> ELSE <<95 + rank>>

\* a video whose title is empty: tasks.py:21 names its file ".mp3"
Untitled(rank) == [Result(IdOf(rank), 700, "ok", TRUE) EXCEPT !.title = <<>>]

\* result number rank: a track of no audio, one shorter than every clip, one
\* longer than every clip, one that cannot be fetched, one that cannot be
\* decoded, and as the first result one without a title
ResultsAt(rank) ==
    {Result(IdOf(rank), dur, "ok", TRUE) : dur \in {0, 700, 61000}}
        \cup {Result(IdOf(rank), 700, "err", TRUE),
              Result(IdOf(rank), 700, "ok", FALSE)}
        \cup (IF rank = 1 THEN {Untitled(rank)} ELSE {})

RECURSIVE ResultLists(_)
ResultLists(len) ==
    IF len = 0 THEN {<<>>}
    ELSE {Append(rs, r) : rs \in ResultLists(len - 1), r \in ResultsAt(len)}

JobResults == UNION {ResultLists(len) : len \in 0..MaxResults}

JobForms ==
    {Form(SingerAB, n, y, UserEmail) : n \in {1, 2, 20}, y \in {1, 2, 60}}

NothingYet == \A u \in Threads : th[u] = Locals0

JobNext ==
    \/ \E form \in JobForms : NothingYet /\ StartIndexPost("w1", Raw(form))
    \/ cl_now("w1")
    \/ cl_iter("w1")
    \/ cl_scan("w1")
    \/ ix_validate("w1")
    \/ \E results \in JobResults : ix_download("w1", results)
    \/ ix_build("w1")
    \/ ix_zip("w1")
    \/ cz_uuid("w1")
    \/ cz_write("w1")
    \/ cz_time("w1")
    \/ cz_pub("w1")
    \/ \E sent \in BOOLEAN : ix_email("w1", sent)
    \/ \E form \in JobForms : NothingYet /\ StartTask("rq", form)
    \/ \E results \in JobResults : tk_download("rq", results)
    \/ tk_trim("rq")
    \/ tk_merge("rq")
    \/ tk_zip("rq")
    \/ \E sent \in BOOLEAN : tk_email("rq", sent)
    \/ \E t \in {"w1", "rq"} : finally(t)

JobSpec == Init /\ [][JobNext]_vars

-----------------------------------------------------------------------------
(* The web service handling requests on two threads at once *)

ConcForms == {Raw(Form(SingerAB, 2, 1, UserEmail))}

ConcResults == {<<Result(<<98>>, 3000, "ok", TRUE)>>}

ConcNext ==
    \/ Tick
    \/ \E t \in Web : WebStep(t, ConcForms, ConcResults)

ConcSpec == Init /\ [][ConcNext]_vars

-----------------------------------------------------------------------------
(* Claims about the download cache, under Spec *)

\* thread t has answered a GET /download/<token>
Pulled(t) == th[t].pc = "idle" /\ th[t].kind = "download"

\* C1: a pull request that follows a put at once (nothing else happened in
\* between) is answered with exactly the archive bytes and the display name
\* that were put, whatever else the cache holds.
C1_PutThenGet ==
    \A t \in Web :
        Pulled(t) /\ lastPut.token # 0 /\ th[t].token = lastPut.token
            => th[t].resp = [NoResp EXCEPT !.status = 200,
                                           !.data = lastPut.data,
                                           !.name = lastPut.name]

\* a pull served right after the put of the second entry of the cache
C1_Witness ==
    \E t \in Web :
        /\ Pulled(t) /\ th[t].token = lastPut.token
        /\ th[t].resp.status = 200
        /\ Len(DOWNLOADS) = 2 /\ Live(DOWNLOADS[1])
        /\ DOWNLOADS[1].filename # DOWNLOADS[2].filename

\* C2: a pull request whose sweep found the token's entry older than the TTL
\* never gets to the archive: it ends with 404 "expired or invalid", and once
\* its sweep is over the entry and the backing file are gone.
C2_ExpiredIsGone ==
    \A t \in Web :
        th[t].kind = "download" /\ th[t].aged
            => /\ th[t].pc \notin {"dl_exists", "dl_send"}
               /\ th[t].pc \in {"dl_get", "idle"}
                    => ~HasKey(th[t].token) /\ ~Exists(th[t].token)
               /\ th[t].pc = "idle"
                    => /\ th[t].resp.status = 404
                       /\ th[t].resp.error = "expired or invalid"

\* a pull of an entry put at 0 and swept at TTL + 1
C2_Witness ==
    \E t \in Web :
        /\ Pulled(t) /\ th[t].aged
        /\ th[t].resp.status = 404
        /\ now = DOWNLOAD_TTL_SECONDS + 1

\* C9: uuid4 never returns a token twice, also after the token's entry was
\* swept, and a job puts at most one entry into the cache.
C9_TokensUnique ==
    /\ \A i, j \in DOMAIN issued : issued[i] = issued[j] => i = j
    /\ \A i, j \in DOMAIN DOWNLOADS :
          Live(DOWNLOADS[i]) /\ DOWNLOADS[i].token = DOWNLOADS[j].token => i = j
    /\ \A t \in Web : th[t].nput <= 1

\* a second job, its email sent, after the first job's entry was swept
C9_Witness ==
    \E t \in Web :
        /\ th[t].pc = "idle" /\ th[t].kind = "index_post"
        /\ th[t].push = "sent" /\ th[t].nput = 1
        /\ Len(issued) = 2 /\ ~HasKey(issued[1]) /\ HasKey(issued[2])

\* the positions inside cleanup_downloads
SweepPcs ==
    {"cl_now", "cl_iter", "cl_scan", "cl_path", "cl_exists", "cl_unlink",
     "cl_pop"}

\* C15: a sweep in which the deletion of a backing file failed still drops
\* every entry older than the TTL at its clock reading, that of the failed
\* deletion and those after it, and the request goes on as if nothing happened.
C15_SweepSwallowsDeleteError ==
    \A t \in Web :
        th[t].unlinkfail /\ th[t].pc \notin SweepPcs
            => /\ \A i \in DOMAIN DOWNLOADS :
                    Live(DOWNLOADS[i]) => ~IsExpired(DOWNLOADS[i], th[t].cnow)
               /\ th[t].resp.exc # "RuntimeError"
               /\ th[t].pc = "idle" /\ th[t].kind = "index_get"
                    => th[t].resp = Page("", FALSE, 0)

\* a sweep of two expired entries: the first one's file vanished between the
\* test and the deletion, the second one's was deleted
C15_Witness ==
    \E t \in Web :
        /\ th[t].unlinkfail /\ th[t].pc = "idle" /\ th[t].kind = "index_get"
        /\ Len(DOWNLOADS) = 2
        /\ ~Live(DOWNLOADS[1]) /\ ~Live(DOWNLOADS[2])
        /\ DOMAIN cachefs = {}

\* C11 (as claimed): a submission without a recipient address still runs the
\* pipeline: it ends with a pull link whose token was registered in the cache,
\* no email was attempted, and the request was neither rejected nor failed.
C11_NoRecipientPullOnly ==
    \A t \in Web :
        (/\ th[t].pc = "idle" /\ th[t].kind = "index_post" /\ th[t].norcpt
         /\ th[t].resp.error # "singer required"
         /\ th[t].resp.error # "n out of range"
         /\ th[t].resp.error # "y out of range")
            => /\ th[t].resp.error = ""
               /\ th[t].resp.url # 0
               /\ th[t].resp.url \in {issued[i] : i \in DOMAIN issued}
               /\ th[t].nput = 1
               /\ th[t].push = "none"

\* C12 (as claimed): a pull that found the token's entry but not its backing
\* file is answered 404, and when it has ended the token is no longer in the
\* cache.
C12_LostFileDropsEntry ==
    \A t \in Web :
        Pulled(t) /\ th[t].resp.error = "file not found"
            => th[t].resp.status = 404 /\ ~HasKey(th[t].token)

\* the submission, as index reads it, is outside the limits
Invalid(form) ==
    \/ form.singer = <<>>
    \/ form.n \notin 1..20
    \/ form.y \notin 1..60
    \/ form.email \notin ValidEmails

\* the page of a rejected submission
Rejections ==
    {Page(e, FALSE, 0) : e \in {"singer required", "n out of range",
                                "y out of range", "email required",
                                "email invalid"}}

\* C17: a submission outside the limits never gets past the validation: while
\* it is handled and when it has been answered there is no temporary
\* directory, no download was made, no token drawn, no cache entry put and no
\* email attempted.
C17_OnlyValidRequestsRun ==
    \A t \in Web :
        (/\ th[t].kind = "index_post"
         /\ \/ th[t].pc # "idle" /\ Invalid(th[t].form)
            \/ th[t].pc = "idle" /\ th[t].resp \in Rejections)
            => /\ th[t].pc \in SweepPcs \cup {"ix_validate", "idle"}
               /\ ~th[t].tmp /\ th[t].dir = NoDir
               /\ th[t].results = <<>> /\ th[t].fetched = 0
               /\ th[t].tok = 0 /\ th[t].nput = 0 /\ th[t].push = "none"

\* a submission rejected for its address while the cache holds an earlier job
C17_Witness ==
    \E t \in Web :
        /\ th[t].pc = "idle" /\ th[t].kind = "index_post"
        /\ th[t].resp = Page("email invalid", FALSE, 0)
        /\ th[t].nput = 0 /\ Len(issued) = 1 /\ HasKey(1)

\* C18: no step of a sweep touches an entry whose age at the sweep's clock
\* reading is at most the TTL: the entry stays in its slot with the same path,
\* creation time and display name, and its backing file keeps its content.
C18_SweepKeepsYoung ==
    [][\A t \in Web :
          th[t].pc \in SweepPcs /\ th'[t] # th[t]
              => \A i \in DOMAIN DOWNLOADS :
                    (/\ Live(DOWNLOADS[i])
                     /\ th[t].cnow - DOWNLOADS[i].created <= 20 * 60)
                        => /\ i \in DOMAIN DOWNLOADS'
                           /\ DOWNLOADS'[i] = DOWNLOADS[i]
                           /\ DOWNLOADS[i].path \in DOMAIN cachefs
                                => /\ DOWNLOADS[i].path \in DOMAIN cachefs'
                                   /\ cachefs'[DOWNLOADS[i].path]
                                        = cachefs[DOWNLOADS[i].path]]_vars

\* a pull served after a sweep at the very second the entry's age is the TTL
C18_Witness ==
    \E t \in Web :
        /\ Pulled(t) /\ th[t].resp.status = 200
        /\ th[t].cnow = DOWNLOAD_TTL_SECONDS
        /\ HasKey(th[t].token) /\ Get(th[t].token).created = 0
        /\ Exists(Get(th[t].token).path)

-----------------------------------------------------------------------------
(* Claims about the download cache left alone, under SerialSpec *)

\* C20: a pull that comes after the job has ended and its temporary directory
\* is gone, at a clock reading that puts the entry's age at no more than the
\* TTL, is answered with the archive: one file, named after the query, under
\* the display name the job gave.
C20_ArchiveOutlivesJob ==
    \A t \in Web :
        (/\ Pulled(t) /\ HasKey(th[t].token)
         /\ th[t].cnow - Get(th[t].token).created <= DOWNLOAD_TTL_SECONDS)
            => /\ ~th[t].tmp /\ th[t].zip = <<>>
               /\ th[t].resp.status = 200
               /\ Len(th[t].resp.data) = 1
               /\ th[t].resp.data[1].arcname
                    = SubSeq(th[t].resp.name, 1,
                             Len(th[t].resp.name) - Len(S_mashup_zip))
                        \o S_mashup_mp3
               /\ th[t].resp.name = Get(th[t].token).filename

\* the second job's archive pulled after the first job's entry was swept
C20_Witness ==
    \E t \in Web :
        /\ Pulled(t) /\ th[t].token = 2 /\ th[t].resp.status = 200
        /\ Len(issued) = 2 /\ ~HasKey(1)
        /\ th[t].cnow - Get(2).created > 0

-----------------------------------------------------------------------------
(* Claims about one job, under JobSpec *)

\* thread t runs, or has run, the pipeline
Job(t) == th[t].kind \in {"index_post", "task"}

Ended(t) == Job(t) /\ th[t].pc = "idle"

\* the job raised, or its page carries an error and no download link
JobFailed(r) ==
    \/ r.resp.exc # ""
    \/ r.resp.error # "" /\ r.resp.url = 0

\* the merged track has been written
Assembled(t) == th[t].pc \in {"ix_zip", "tk_zip"}

\* C3 (as claimed): a job whose push delivery failed still ends with a pull
\* token that is registered in the cache with its file; the job has not failed.
C3_PushFailureKeepsPull ==
    \A t \in Threads :
        Ended(t) /\ th[t].push = "failed"
            => /\ ~JobFailed(th[t])
               /\ th[t].resp.url # 0
               /\ HasKey(th[t].resp.url)
               /\ Exists(Get(th[t].resp.url).path)

\* C4: a job whose download left no audio file never draws a token, never puts
\* a cache entry or file, never attempts the email, and ends failed.
C4_NoFetchNoDelivery ==
    \A t \in Threads :
        Job(t) /\ th[t].fetched = 0
            => /\ th[t].tok = 0 /\ th[t].nput = 0 /\ th[t].push = "none"
               /\ DOWNLOADS = <<>> /\ DOMAIN cachefs = {} /\ issued = <<>>
               /\ th[t].pc \notin {"ix_build", "ix_zip", "cz_uuid", "cz_write",
                                   "cz_time", "cz_pub", "ix_email", "tk_trim", "tk_merge",
                                   "tk_zip", "tk_email"}
               /\ th[t].pc = "idle" => JobFailed(th[t])

\* a job that ended after a search whose first result could not be fetched
C4_Witness ==
    \E t \in Threads :
        /\ Ended(t) /\ th[t].fetched = 0
        /\ Len(th[t].results) >= 2
        /\ th[t].resp.error = "youtube blocked"

\* C5: when a job has ended, on whatever path, its temporary directory and
\* the downloaded, trimmed, merged and zipped files in it are gone.
C5_TempDirRemoved ==
    \A t \in Threads :
        th[t].pc = "idle"
            => /\ ~th[t].tmp
               /\ th[t].dir = NoDir /\ th[t].trims = NoDir
               /\ th[t].merged = <<>> /\ th[t].zip = <<>>

\* a job that ended with the exception of a file that could not be decoded
C5_Witness ==
    \E t \in Threads :
        /\ Ended(t) /\ th[t].resp.exc = "CouldntDecodeError"
        /\ th[t].fetched >= 2 /\ ~th[t].tmp

\* C6 (as claimed): the clips of the merged track are in ascending search rank.
C6_RankOrder ==
    \A t \in Threads :
        Assembled(t)
            => \A i, j \in DOMAIN th[t].merged :
                    i < j => th[t].merged[i].src < th[t].merged[j].src

\* C7 (as claimed): a job with at least one source fetched does not end with
\* the failure of the fetch stage.
C7_PartialFetchTolerated ==
    \A t \in Threads :
        Ended(t) /\ th[t].fetched >= 1
            => /\ th[t].resp.error \notin {"youtube blocked", "no audios"}
               /\ th[t].resp.exc \notin {"DownloadError", "RuntimeError"}

\* the sum over the first k results of min(y seconds, duration)
RECURSIVE ClipSum(_, _, _)
ClipSum(results, k, y) ==
    IF k = 0 THEN 0
    ELSE Min(y * 1000, results[k].dur) + ClipSum(results, k - 1, y)

\* C8: the merged track lasts the sum, over the fetched tracks, of
\* min(Y seconds, the track's duration).
C8_MergedDuration ==
    \A t \in Threads :
        Assembled(t)
            => Duration(th[t].merged)
                 = ClipSum(th[t].results,
                           Min(th[t].form.n, Len(th[t].results)), th[t].form.y)

\* a merged track of a clip that was cut and a track shorter than the cut
C8_Witness ==
    \E t \in Threads :
        /\ Assembled(t)
        /\ \E i, j \in DOMAIN th[t].merged :
              /\ th[t].merged[i].len = th[t].form.y * 1000
              /\ th[t].merged[j].len = 700

\* C13 (as claimed): the archive of a job holds exactly one file, the merged
\* track, under the name made of the sanitised query: "a_b" for " a b ".
C13_ArchiveOfSanitisedName ==
    \A t \in Threads :
        Job(t) /\ th[t].zip # <<>>
            => /\ Len(th[t].zip) = 1
               /\ th[t].zip[1].data = th[t].merged
               /\ th[t].form.singer \in {SingerAB, strip(SingerAB, Whitespace)}
                    => th[t].zip[1].arcname = <<97, 95, 98>> \o S_mashup_mp3

\* C16 (as claimed): a job whose fetched tracks all have no audio ends failed:
\* it draws no token, puts no cache entry, attempts no email, and has no
\* merged track.
C16_SilentTracksFailJob ==
    \A t \in Threads :
        (/\ Job(t) /\ th[t].fetched >= 1
         /\ \A k \in 1..th[t].fetched : th[t].results[k].dur = 0)
            => /\ th[t].tok = 0 /\ th[t].nput = 0 /\ th[t].push = "none"
               /\ th[t].pc \notin {"ix_zip", "tk_zip", "tk_email", "ix_email"}
               /\ th[t].pc = "idle" => JobFailed(th[t])

-----------------------------------------------------------------------------
(* Claims about concurrent requests, under ConcSpec *)

\* C10 (as claimed): a pull request never ends with the exception of the file
\* that vanished between its existence check and its read.
C10_PullSurvivesSweep ==
    \A t \in Web : Pulled(t) => th[t].resp.exc # "FileNotFoundError"

\* C14 (as claimed): no request fails because the dict changed while its sweep
\* iterated over it, and every token that was put is still in the dict with
\* its file unless it is being put right now or the clock has passed the TTL.
C14_PutAndSweepAtomic ==
    /\ \A t \in Web : th[t].resp.exc # "RuntimeError"
    /\ \A i \in DOMAIN issued :
          \/ HasKey(issued[i]) /\ Exists(Get(issued[i]).path)
          \/ \E t \in Web : th[t].tok = issued[i]
                              /\ th[t].pc \in {"cz_write", "cz_time", "cz_pub"}
          \/ now > DOWNLOAD_TTL_SECONDS

\* some sweep has picked the token for removal and is not through with it
BeingSwept(token) ==
    \E u \in Web :
        /\ th[u].pc \in SweepPcs
        /\ \E k \in DOMAIN th[u].expired : th[u].expired[k] = token

\* C19: under every interleaving of puts, gets and sweeps, a token that is in
\* the dict has its backing file, unless a sweep has started to remove it; so
\* a get that found the entry finds the file.
C19_FileBeforeToken ==
    /\ \A i \in DOMAIN DOWNLOADS :
          Live(DOWNLOADS[i])
              => Exists(DOWNLOADS[i].path) \/ BeingSwept(DOWNLOADS[i].token)
    /\ \A t \in Web :
          th[t].pc = "dl_exists" /\ HasKey(th[t].token)
              => Exists(th[t].meta.path) \/ BeingSwept(th[t].token)

\* a get has found the entry another thread's job has just published
C19_Witness ==
    \E t, u \in Web :
        /\ th[t].pc = "ix_email"
        /\ th[u].pc = "dl_exists" /\ th[u].token = th[t].tok
        /\ Exists(th[u].meta.path)


====
